---- MODULE Spec2Model ----
(***************************************************************************)
(* MarqoVectorStoreDriver (griptape/drivers/vector/                        *)
(* marqo_vector_store_driver.py) over a tensor-search backend.             *)
(*                                                                         *)
(* The driver is modelled method by method.  The backend (marqo.Client)    *)
(* is the environment: a set of named indexes, each a map from document id *)
(* to a stored document with its embedding facets.                         *)
(*                                                                         *)
(* Python values:                                                          *)
(*   Optional[x]   None is <<>>, a present value x is <<x>>                *)
(*   str           text, namespaces and serialized values are sequences of *)
(*                 tokens, so that formatting and parsing do something     *)
(*   dict          a function from its keys                                *)
(*   list          a sequence                                              *)
(***************************************************************************)
EXTENDS Integers, Sequences, FiniteSets, TLC

\* Bounds of the model.
MaxChunks == 2          \* a text has at most this many chunks

\* Program constants.
SEARCH_LIMIT == 10000           \* load_entries: search("", limit=10000)
DEFAULT_QUERY_COUNT == 5        \* BaseVectorStoreDriver.DEFAULT_QUERY_COUNT, set in the base driver

Clients == {"c1", "c2"}
IndexNames == {"i1", "i2"}
InitIndex == "i1"
ReqIds == {"d1"}
GenIds == {"g1"}

None == <<>>
Some(x) == <<x>>
Opt(S) == {None} \cup {Some(x) : x \in S}

\* Texts: a text is its sequence of chunks; chunk k of every text is k.
Texts == {[k \in 1..n |-> k] : n \in 0..MaxChunks}

\* Namespace strings, as token sequences.  Injected holds the filter
\* syntax's own tokens.
NS1 == <<"ns1">>
NS2 == <<"ns2">>
EmptyStr == <<>>
Injected == <<"ns1", "OR", "namespace", ":", "ns2">>
StoredNamespaces == Opt({NS1, NS2, EmptyStr})
ReadNamespaces == Opt({NS1, NS2, EmptyStr, Injected})

\* meta dicts
M1 == [k1 |-> "v1"]
EmptyDict == [k \in {} |-> "v1"]
Metas == Opt({M1, EmptyDict})

OneChunk == [k \in 1..1 |-> k]

\* vectors and counts passed in
Vectors == {<<>>, <<1, 2>>}
Counts == {1}

\* text artifacts: id and value
Artifacts == {[id |-> "d1", value |-> OneChunk]}

VARIABLES
    indexes,    \* backend: the names of the indexes that exist
    docs,       \* backend: docs[i] maps the ids of index i to stored documents
    index,      \* index[c]: client c's self.index
    pc,         \* pc[c]: where client c is inside a call
    last        \* last[c]: the last call client c completed, and its outcome

vars == <<indexes, docs, index, pc, last>>

Idle == [at |-> "idle"]
NoDocs == [k \in {} |-> 0]

\* ---------------------------------------------------------------- Python

\* dict[k] = v
Put(d, k, v) == [x \in (DOMAIN d) \cup {k} |-> IF x = k THEN v ELSE d[x]]

\* {k: v for k, v in d.items() if k not in ks}
Without(d, ks) == [x \in (DOMAIN d) \ ks |-> d[x]]

\* truth value of an Optional[str] or Optional[dict]
TruthyStr(o) == o # None /\ o[1] # <<>>
TruthyDict(o) == o # None /\ DOMAIN o[1] # {}

\* str(d) of a dict with at most one key
PyStr(d) ==
    IF DOMAIN d = {} THEN <<"{", "}">>
    ELSE LET k == CHOOSE x \in DOMAIN d : TRUE
         IN  <<"{", "'", k, "'", ":", "'", d[k], "'", "}">>

\* artifact.to_json(), then str() of it
ArtifactJson(a) == <<"{", "id", ":", a.id, ",", "value", ":", a.value, "}">>

\* ---------------------------------------------------------------- backend

\* mq.get_indexes(): the names of the existing indexes
BackendGetIndexes == indexes

\* the embedding of one chunk
Embedding(chunk) == <<chunk, chunk + 1>>

\* The facets the backend computes at write time: one per chunk of every
\* field not classified non-tensor.  Description is the only field whose
\* value the driver ever leaves tensor.
TensorFacets(doc, non_tensor_fields) ==
    IF "Description" \in (DOMAIN doc) \ non_tensor_fields
    THEN [k \in 1..Len(doc["Description"]) |->
            [Description |-> doc["Description"][k],
             _embedding |-> Embedding(doc["Description"][k])]]
    ELSE <<>>

\* the id add_documents confirms: the requested one, or a fresh one
BackendDocId(i, doc) ==
    IF doc["_id"] = None
    THEN CHOOSE g \in GenIds : g \notin DOMAIN docs[i]
    ELSE doc["_id"][1]

\* a fresh id is left to generate
BackendCanAdd(i, doc) ==
    doc["_id"] = None => \E g \in GenIds : g \notin DOMAIN docs[i]

\* mq.index(i).add_documents([doc], non_tensor_fields): full replace
BackendAddDocuments(i, doc, non_tensor_fields) ==
    LET id == BackendDocId(i, doc)
        stored == [fields |-> Put(doc, "_id", id),
                   facets |-> TensorFacets(doc, non_tensor_fields)]
    IN  [docs EXCEPT ![i] = Put(docs[i], id, stored)]

\* mq.index(i).get_document(id, expose_facets): the document, or None
BackendGetDocument(i, id, expose_facets) ==
    IF id \notin DOMAIN docs[i] THEN None
    ELSE IF expose_facets
         THEN Some(Put(docs[i][id].fields, "_tensor_facets", docs[i][id].facets))
         ELSE Some(docs[i][id].fields)

\* mq.index(i).get_documents(ids, expose_facets)["results"]
BackendGetDocuments(i, ids, expose_facets) ==
    [k \in 1..Len(ids) |->
        IF ids[k] \in DOMAIN docs[i]
        THEN Put(BackendGetDocument(i, ids[k], expose_facets)[1], "_found", TRUE)
        ELSE [_id |-> ids[k], _found |-> FALSE]]

\* ---- search

RECURSIVE SplitOr(_)
\* the filter string cut at its OR tokens
SplitOr(s) ==
    IF \E k \in 1..Len(s) : s[k] = "OR"
    THEN LET k == CHOOSE j \in 1..Len(s) : s[j] = "OR" /\ \A h \in 1..(j - 1) : s[h] # "OR"
         IN  <<SubSeq(s, 1, k - 1)>> \o SplitOr(SubSeq(s, k + 1, Len(s)))
    ELSE <<s>>

\* one term of a filter: field ":" value
TermOk(t) == Len(t) >= 3 /\ t[2] = ":"
FilterOk(filter_string) ==
    filter_string = None \/ \A k \in 1..Len(SplitOr(filter_string[1])) : TermOk(SplitOr(filter_string[1])[k])

\* a stored document passes the filter when one of its terms holds of it;
\* namespace is the string field filtered on
DocMatches(fields, filter_string) ==
    \/ filter_string = None
    \/ \E k \in 1..Len(SplitOr(filter_string[1])) :
          LET t == SplitOr(filter_string[1])[k]
          IN  /\ t[1] = "namespace"
              /\ "namespace" \in DOMAIN fields
              /\ fields["namespace"] = Some(SubSeq(t, 3, Len(t)))

IdRank(id) == IF id \in ReqIds THEN 1 ELSE 2

\* the relevance score the backend gives a document (its own scale)
Score(i, id) == 3 * Len(docs[i][id].facets) + IdRank(id)

RECURSIVE SortHits(_, _)
\* relevance order: highest score first
SortHits(i, S) ==
    IF S = {} THEN <<>>
    ELSE LET top == CHOOSE x \in S : \A y \in S : Score(i, x) >= Score(i, y)
         IN  <<top>> \o SortHits(i, S \ {top})

Min(a, b) == IF a <= b THEN a ELSE b

\* mq.index(i).search(q, limit, attributes_to_retrieve, filter_string)["hits"]:
\* a similarity search over the embedding facets, so a hit is a document that
\* has a facet; a hit carries _id, _score and the attributes asked for.
BackendSearch(i, limit, attributes, filter_string) ==
    LET S == {id \in DOMAIN docs[i] :
                 /\ Len(docs[i][id].facets) > 0
                 /\ DocMatches(docs[i][id].fields, filter_string)}
        all == SortHits(i, S)
    IN  [k \in 1..Min(limit, Len(all)) |->
            Put(IF attributes = "*" THEN docs[i][all[k]].fields ELSE [_id |-> all[k]],
                "_score", Score(i, all[k]))]

\* another client deletes a document
EnvDeleteDocument(i, id) ==
    /\ id \in DOMAIN docs[i]
    /\ docs' = [docs EXCEPT ![i] = Without(docs[i], {id})]
    /\ UNCHANGED <<indexes, index, pc, last>>

\* ------------------------------------------------------------- the driver

Result(op, arg, err) == [op |-> op, arg |-> arg, err |-> err]

\* What a set_index call leaves in last[c]: its outcome, the create_index
\* calls it issued, whether get_indexes() listed the name, and the same of
\* the call before it when that was a set_index of the same name.
SetIndexRecord(c, name, listed, err, creates) ==
    [op |-> "set_index", arg |-> name, err |-> err, creates |-> creates,
     absent |-> name \notin listed,
     before |-> IF last[c].op = "set_index" /\ last[c].arg = name
                THEN Some([err |-> last[c].err, creates |-> last[c].creates, absent |-> last[c].absent])
                ELSE None]

\* set_index that assigns self.index without creating the index
SetIndexFinish_NoCreate(c, name, listed) ==
    /\ index' = [index EXCEPT ![c] = name]
    /\ last' = [last EXCEPT ![c] = SetIndexRecord(c, name, listed, "none", 0)]
    /\ UNCHANGED <<indexes, docs>>

\* set_index that creates the index without looking at the list
SetIndexFinish_AlwaysCreate(c, name, listed) ==
    IF name \in indexes
    THEN /\ last' = [last EXCEPT ![c] = SetIndexRecord(c, name, listed, "BackendError", 1)]
         /\ UNCHANGED <<indexes, docs, index>>
    ELSE /\ indexes' = indexes \cup {name}
         /\ index' = [index EXCEPT ![c] = name]
         /\ last' = [last EXCEPT ![c] = SetIndexRecord(c, name, listed, "none", 1)]
         /\ UNCHANGED docs

\* set_index after get_indexes() returned `listed`: create the index when
\* it was not listed, then self.index = index.  A create_index the backend
\* rejects propagates, and self.index keeps its value.
SetIndexFinish(c, name, listed) ==
    IF name \in listed
    THEN /\ index' = [index EXCEPT ![c] = name]
         /\ last' = [last EXCEPT ![c] = SetIndexRecord(c, name, listed, "none", 0)]
         /\ UNCHANGED <<indexes, docs>>
    ELSE IF name \in indexes
    THEN /\ last' = [last EXCEPT ![c] = SetIndexRecord(c, name, listed, "BackendError", 1)]
         /\ UNCHANGED <<indexes, docs, index>>
    ELSE /\ indexes' = indexes \cup {name}
         /\ index' = [index EXCEPT ![c] = name]
         /\ last' = [last EXCEPT ![c] = SetIndexRecord(c, name, listed, "none", 1)]
         /\ UNCHANGED docs

\* set_index(index), with nothing between its backend calls
SetIndex(c, name) ==
    /\ pc[c] = Idle
    /\ SetIndexFinish(c, name, BackendGetIndexes)
    /\ UNCHANGED pc

\* set_index(index) up to the return of get_indexes()
SetIndexList(c, name) ==
    /\ pc[c] = Idle
    /\ pc' = [pc EXCEPT ![c] = [at |-> "listed", name |-> name, listed |-> BackendGetIndexes]]
    /\ UNCHANGED <<indexes, docs, index, last>>

\* set_index(index) from the membership test to its end
SetIndexCreate(c) ==
    /\ pc[c].at = "listed"
    /\ SetIndexFinish(c, pc[c].name, pc[c].listed)
    /\ pc' = [pc EXCEPT ![c] = Idle]

\* create_index(name)
CreateIndex(c, name) ==
    /\ pc[c] = Idle
    /\ IF name \in indexes
       THEN /\ last' = [last EXCEPT ![c] = Put(Result("create_index", name, "BackendError"), "creates", 1)]
            /\ UNCHANGED indexes
       ELSE /\ indexes' = indexes \cup {name}
            /\ last' = [last EXCEPT ![c] = Put(Result("create_index", name, "none"), "creates", 1)]
    /\ UNCHANGED <<docs, index, pc>>

\* delete_index(name)
DeleteIndex(c, name) ==
    /\ pc[c] = Idle
    /\ IF name \in indexes
       THEN /\ indexes' = indexes \ {name}
            /\ docs' = [docs EXCEPT ![name] = NoDocs]
            /\ last' = [last EXCEPT ![c] = Result("delete_index", name, "none")]
       ELSE /\ last' = [last EXCEPT ![c] = Result("delete_index", name, "BackendError")]
            /\ UNCHANGED <<indexes, docs>>
    /\ UNCHANGED <<index, pc>>

\* ---- documents

\* upsert_text that leaves meta out of the document
UpsertTextDoc_NoMeta(string, vector_id, namespace, meta) ==
    LET doc0 == [_id |-> vector_id, Description |-> string]
    IN  IF TruthyStr(namespace) THEN Put(doc0, "namespace", namespace) ELSE doc0

\* upsert_text: the document sent to add_documents
UpsertTextDoc(string, vector_id, namespace, meta) ==
    LET doc0 == [_id |-> vector_id, Description |-> string]
        doc1 == IF TruthyDict(meta) THEN Put(doc0, "meta", PyStr(meta[1])) ELSE doc0
    IN  IF TruthyStr(namespace) THEN Put(doc1, "namespace", namespace) ELSE doc1

UpsertTextNonTensor == {"meta", "namespace"}

\* upsert_text_artifact: the document sent to add_documents
UpsertArtifactDoc(artifact, namespace, meta) ==
    [_id |-> Some(artifact.id),
     Description |-> artifact.value,
     artifact |-> ArtifactJson(artifact),
     namespace |-> namespace]

UpsertArtifactNonTensor == {"meta", "namespace", "artifact"}

\* one add_documents call on self.index and the id of its response
AddDocument(c, op, arg, doc, non_tensor_fields) ==
    IF index[c] \notin indexes
    THEN /\ last' = [last EXCEPT ![c] = Result(op, arg, "BackendError")]
         /\ UNCHANGED docs
    ELSE /\ BackendCanAdd(index[c], doc)
         /\ docs' = BackendAddDocuments(index[c], doc, non_tensor_fields)
         /\ last' = [last EXCEPT ![c] =
                       [op |-> op, arg |-> arg, err |-> "none",
                        ret |-> BackendDocId(index[c], doc),
                        sent |-> [doc |-> doc, non_tensor_fields |-> non_tensor_fields]]]

\* upsert_text(string, vector_id, namespace, meta)
UpsertText(c, string, vector_id, namespace, meta) ==
    /\ pc[c] = Idle
    /\ AddDocument(c, "upsert_text",
                   [string |-> string, vector_id |-> vector_id, namespace |-> namespace, meta |-> meta],
                   UpsertTextDoc(string, vector_id, namespace, meta), UpsertTextNonTensor)
    /\ UNCHANGED <<indexes, index, pc>>

\* upsert_text_artifact(artifact, namespace, meta)
UpsertTextArtifact(c, artifact, namespace, meta) ==
    /\ pc[c] = Idle
    /\ AddDocument(c, "upsert_text_artifact",
                   [artifact |-> artifact, namespace |-> namespace, meta |-> meta],
                   UpsertArtifactDoc(artifact, namespace, meta), UpsertArtifactNonTensor)
    /\ UNCHANGED <<indexes, index, pc>>

\* upsert_vector that writes the vector's document instead of raising
UpsertVector_Writes(c, vector, vector_id, namespace, meta) ==
    /\ pc[c] = Idle
    /\ index[c] \in indexes
    /\ docs' = [docs EXCEPT ![index[c]] =
                  Put(docs[index[c]], "d1", [fields |-> [_id |-> "d1", Description |-> <<>>], facets |-> <<>>])]
    /\ last' = [last EXCEPT ![c] =
                  [op |-> "upsert_vector",
                   arg |-> [vector |-> vector, vector_id |-> vector_id, namespace |-> namespace, meta |-> meta],
                   err |-> "none", ret |-> "d1"]]
    /\ UNCHANGED <<indexes, index, pc>>

\* upsert_vector(vector, vector_id, namespace, meta): raise Exception("not implemented")
UpsertVector(c, vector, vector_id, namespace, meta) ==
    /\ pc[c] = Idle
    /\ last' = [last EXCEPT ![c] =
                  [op |-> "upsert_vector",
                   arg |-> [vector |-> vector, vector_id |-> vector_id, namespace |-> namespace, meta |-> meta],
                   err |-> "Exception", msg |-> "not implemented"]]
    /\ UNCHANGED <<indexes, docs, index, pc>>

\* load_entry without the test on the number of facets
LoadEntryResult_NoFacetTest(result) ==
    IF result # None /\ "_tensor_facets" \in DOMAIN result[1]
    THEN Some([id |-> result[1]["_id"],
               meta |-> Without(result[1], {"_id"}),
               vector |-> IF Len(result[1]["_tensor_facets"]) > 0
                          THEN result[1]["_tensor_facets"][1]["_embedding"]
                          ELSE <<>>,
               namespace |-> None])
    ELSE None

\* load_entry: from the result of get_document to the value returned
LoadEntryResult(result) ==
    IF result # None /\ "_tensor_facets" \in DOMAIN result[1] /\ Len(result[1]["_tensor_facets"]) > 0
    THEN Some([id |-> result[1]["_id"],
               meta |-> Without(result[1], {"_id"}),
               vector |-> result[1]["_tensor_facets"][1]["_embedding"],
               namespace |-> None])
    ELSE None

\* load_entry(vector_id, namespace); the code does not read namespace
LoadEntry(c, vector_id) ==
    /\ pc[c] = Idle
    /\ IF index[c] \notin indexes
       THEN last' = [last EXCEPT ![c] = Result("load_entry", vector_id, "BackendError")]
       ELSE last' = [last EXCEPT ![c] =
                       Put(Result("load_entry", vector_id, "none"), "ret",
                           LoadEntryResult(BackendGetDocument(index[c], vector_id, TRUE)))]
    /\ UNCHANGED <<indexes, docs, index, pc>>

\* load_entries and query that pass no filter
FilterString_Unfiltered(namespace) == None

\* f"namespace:{namespace}" if namespace else None
FilterString(namespace) ==
    IF TruthyStr(namespace) THEN Some(<<"namespace", ":">> \o namespace[1]) ELSE None

\* load_entries, phase (a): the ids of the search's hits
LoadEntriesSearch(c, namespace) ==
    /\ pc[c] = Idle
    /\ IF index[c] \notin indexes \/ ~FilterOk(FilterString(namespace))
       THEN /\ last' = [last EXCEPT ![c] = Result("load_entries", namespace, "BackendError")]
            /\ UNCHANGED pc
       ELSE /\ pc' = [pc EXCEPT ![c] =
                        [at |-> "fetch", namespace |-> namespace,
                         ids |-> LET hits == BackendSearch(index[c], SEARCH_LIMIT, "*", FilterString(namespace))
                                 IN  [k \in 1..Len(hits) |-> hits[k]["_id"]]]]
            /\ UNCHANGED last
    /\ UNCHANGED <<indexes, docs, index>>

\* load_entries: is doc["_tensor_facets"][0] there for every document found
EntriesIndexable(documents) ==
    \A k \in 1..Len(documents) : documents[k]["_found"] => Len(documents[k]["_tensor_facets"]) > 0

\* load_entries: the entries of the documents found
EntriesOf(documents) ==
    LET found == SelectSeq(documents, LAMBDA d : d["_found"])
    IN  [k \in 1..Len(found) |->
            [id |-> found[k]["_id"],
             vector |-> found[k]["_tensor_facets"][1]["_embedding"],
             meta |-> Without(found[k], {"_id", "_tensor_facets", "_found"}),
             namespace |-> IF "namespace" \in DOMAIN found[k] THEN found[k]["namespace"] ELSE None]]

\* load_entries that reads doc["_tensor_facets"] of every result, found or not
LoadEntriesFetch_NoFoundTest(c) ==
    /\ pc[c].at = "fetch"
    /\ LET documents == BackendGetDocuments(index[c], pc[c].ids, TRUE)
           done(err) == [op |-> "load_entries", arg |-> pc[c].namespace, err |-> err, ids |-> pc[c].ids]
       IN  IF index[c] \notin indexes
           THEN last' = [last EXCEPT ![c] = done("BackendError")]
           ELSE IF \E k \in 1..Len(documents) : "_tensor_facets" \notin DOMAIN documents[k]
           THEN last' = [last EXCEPT ![c] = done("KeyError")]
           ELSE IF ~EntriesIndexable(documents)
           THEN last' = [last EXCEPT ![c] = done("IndexError")]
           ELSE last' = [last EXCEPT ![c] = Put(done("none"), "ret", EntriesOf(documents))]
    /\ pc' = [pc EXCEPT ![c] = Idle]
    /\ UNCHANGED <<indexes, docs, index>>

\* load_entries, phase (b): get_documents of the ids, and the entries
LoadEntriesFetch(c) ==
    /\ pc[c].at = "fetch"
    /\ LET documents == BackendGetDocuments(index[c], pc[c].ids, TRUE)
           done(err) == [op |-> "load_entries", arg |-> pc[c].namespace, err |-> err, ids |-> pc[c].ids]
       IN  IF index[c] \notin indexes
           THEN last' = [last EXCEPT ![c] = done("BackendError")]
           ELSE IF ~EntriesIndexable(documents)
           THEN last' = [last EXCEPT ![c] = done("IndexError")]
           ELSE last' = [last EXCEPT ![c] = Put(done("none"), "ret", EntriesOf(documents))]
    /\ pc' = [pc EXCEPT ![c] = Idle]
    /\ UNCHANGED <<indexes, docs, index>>

\* query: the hits the results are built from
QueryHits(i, hits, include_vectors) ==
    IF include_vectors
    THEN [k \in 1..Len(hits) |-> BackendGetDocument(i, hits[k]["_id"], FALSE)[1]]
    ELSE hits

\* query: the list returned
QueryResults(hits) ==
    [k \in 1..Len(hits) |->
        [vector |-> <<>>,
         score |-> hits[k]["_score"],
         meta |-> Without(hits[k], {"_score"})]]

\* query(query, count, namespace, include_vectors, include_metadata).  The
\* query text reaches only the backend, where it decides the scores, which
\* Score fixes.
Query(c, count, namespace, include_vectors, include_metadata) ==
    /\ pc[c] = Idle
    /\ LET limit == IF count # None /\ count[1] # 0 THEN count[1] ELSE DEFAULT_QUERY_COUNT
           attributes == IF include_metadata THEN "*" ELSE "_id"
           filter_string == FilterString(namespace)
           found == BackendSearch(index[c], limit, attributes, filter_string)
           hits == QueryHits(index[c], found, include_vectors)
           done(err) == [op |-> "query",
                         arg |-> [count |-> count, namespace |-> namespace,
                                  include_vectors |-> include_vectors,
                                  include_metadata |-> include_metadata],
                         err |-> err]
       IN  IF index[c] \notin indexes \/ ~FilterOk(filter_string)
           THEN last' = [last EXCEPT ![c] = done("BackendError")]
           ELSE IF \E k \in 1..Len(hits) : "_score" \notin DOMAIN hits[k]
           THEN last' = [last EXCEPT ![c] = Put(done("KeyError"), "found", found)]
           ELSE last' = [last EXCEPT ![c] =
                           Put(Put(Put(done("none"), "found", found), "ret", QueryResults(hits)),
                               "fetches", IF include_vectors THEN Len(found) ELSE 0)]
    /\ UNCHANGED <<indexes, docs, index, pc>>

\* ------------------------------------------------------------------ specs

\* After construction of both clients with index InitIndex.
Init ==
    /\ indexes = {InitIndex}
    /\ docs = [i \in IndexNames |-> NoDocs]
    /\ index = [c \in Clients |-> InitIndex]
    /\ pc = [c \in Clients |-> Idle]
    /\ last = [c \in Clients |->
                [op |-> "set_index", arg |-> InitIndex, err |-> "none", creates |-> 1,
                 absent |-> TRUE, before |-> None]]

\* Every operation of one client, and another client's deletes.
Next ==
    \/ \E n \in IndexNames : SetIndex("c1", n)
    \/ \E n \in IndexNames : CreateIndex("c1", n)
    \/ \E n \in IndexNames : DeleteIndex("c1", n)
    \/ \E id \in Opt(ReqIds), ns \in {None, Some(NS1)} :
          UpsertText("c1", OneChunk, id, ns, None)
    \/ \E a \in Artifacts : UpsertTextArtifact("c1", a, None, None)
    \/ \E v \in Vectors, id \in Opt(ReqIds), ns \in {None, Some(NS1)}, m \in {None, Some(M1)} :
          UpsertVector("c1", v, id, ns, m)
    \/ \E id \in ReqIds \cup GenIds : LoadEntry("c1", id)
    \/ LoadEntriesSearch("c1", None)
    \/ LoadEntriesFetch("c1")
    \/ \E iv \in BOOLEAN : Query("c1", None, None, iv, TRUE)
    \/ \E i \in IndexNames, id \in ReqIds \cup GenIds : EnvDeleteDocument(i, id)

Spec == Init /\ [][Next]_vars

\* Writes and loads of one client on its index, and another client's deletes.
NextDocs ==
    \/ \E s \in Texts, id \in Opt(ReqIds), ns \in StoredNamespaces, m \in Metas :
          UpsertText("c1", s, id, ns, m)
    \/ \E a \in Artifacts, ns \in StoredNamespaces, m \in Metas :
          UpsertTextArtifact("c1", a, ns, m)
    \/ \E id \in ReqIds \cup GenIds : LoadEntry("c1", id)
    \/ \E ns \in ReadNamespaces : LoadEntriesSearch("c1", ns)
    \/ LoadEntriesFetch("c1")
    \/ \E id \in ReqIds \cup GenIds : EnvDeleteDocument(InitIndex, id)

SpecDocs == Init /\ [][NextDocs]_vars

\* Writes and queries of one client on its index.
NextQuery ==
    \/ \E s \in Texts, id \in Opt(ReqIds), ns \in {Some(NS1), Some(NS2)}, m \in {None, Some(M1)} :
          UpsertText("c1", s, id, ns, m)
    \/ \E n \in Opt(Counts), ns \in {None, Some(NS1), Some(Injected)}, iv \in BOOLEAN, im \in BOOLEAN :
          Query("c1", n, ns, iv, im)
    \/ \E id \in ReqIds \cup GenIds : EnvDeleteDocument(InitIndex, id)

SpecQuery == Init /\ [][NextQuery]_vars

\* Two clients, the backend calls of their set_index interleaved.
NextRace ==
    \/ \E c \in Clients, n \in IndexNames : SetIndexList(c, n)
    \/ \E c \in Clients : SetIndexCreate(c)
    \/ \E c \in Clients, n \in IndexNames : DeleteIndex(c, n)

SpecRace == Init /\ [][NextRace]_vars

\* ----------------------------------------------------------------- claims

\* the step is a call of `op` by c1 that completes
Completes(op) == last'["c1"] # last["c1"] /\ last'["c1"].op = op

\* C1, as stated: in every state reachable by the adapter's operations,
\* self.index names an index that exists in the backend.
C1_IndexAlwaysExists == index["c1"] \in indexes

\* C1, amended: self.index names an existing index after construction and
\* after every set_index that completes, and no operation other than a
\* delete_index of the name self.index holds makes it name a missing index.
C1_IndexExistsUnlessDeleted ==
    /\ index["c1"] \in indexes
    /\ [][/\ (Completes("set_index") /\ last'["c1"].err = "none")
               => (index'["c1"] = last'["c1"].arg /\ index'["c1"] \in indexes')
          /\ (index["c1"] \in indexes /\ ~(Completes("delete_index") /\ last'["c1"].arg = index["c1"]))
               => index'["c1"] \in indexes']_vars

\* set_index moved self.index to an index it had to create
C1_Witness ==
    /\ last["c1"].op = "set_index" /\ last["c1"].arg # InitIndex /\ last["c1"].creates = 1
    /\ index["c1"] = last["c1"].arg
    /\ index["c1"] \in indexes

\* C2: a set_index issues one create_index call when get_indexes() does not
\* list the name and none when it does; two set_index calls in a row with
\* the same name both complete without error and issue one create_index
\* call in total when the index was absent before the first, none when it
\* existed.
C2_IdempotentBootstrap ==
    last["c1"].op = "set_index" =>
        /\ last["c1"].err = "none"
        /\ last["c1"].creates = (IF last["c1"].absent THEN 1 ELSE 0)
        /\ last["c1"].before # None =>
              /\ last["c1"].before[1].err = "none"
              /\ last["c1"].creates = 0
              /\ last["c1"].before[1].creates + last["c1"].creates
                    = (IF last["c1"].before[1].absent THEN 1 ELSE 0)

\* the second of two set_index calls for an index the first had to create
C2_Witness ==
    /\ last["c1"].op = "set_index" /\ last["c1"].arg # InitIndex
    /\ last["c1"].before # None
    /\ last["c1"].before[1].absent /\ last["c1"].before[1].creates = 1
    /\ last["c1"].creates = 0 /\ last["c1"].err = "none"

\* C3: when two clients run set_index for the same absent name with their
\* backend calls interleaved, both complete successfully.
C3_ConcurrentBootstrapSucceeds ==
    \A c \in Clients : last[c].op = "set_index" => last[c].err = "none"

\* C4: upsert_vector ends in the "not implemented" error for every
\* combination of its arguments and leaves the backend's indexes and
\* documents as they were.
C4_UpsertVectorNotSupported ==
    [][Completes("upsert_vector") =>
          /\ last'["c1"].err = "Exception"
          /\ last'["c1"].msg = "not implemented"
          /\ indexes' = indexes
          /\ docs' = docs]_vars

\* upsert_vector was called with every argument given, on an index that
\* holds a document
C4_Witness ==
    /\ last["c1"].op = "upsert_vector"
    /\ last["c1"].arg.vector # <<>> /\ last["c1"].arg.vector_id # None
    /\ last["c1"].arg.namespace # None /\ last["c1"].arg.meta # None
    /\ index["c1"] \in indexes /\ DOMAIN docs[index["c1"]] # {}

\* C5: load_entry does not raise; it returns None when the id names no
\* document of the index and when the document has no facet, and otherwise
\* an Entry whose vector is the embedding of the document's first facet.
C5_LoadEntryAbsentOrFirstFacet ==
    [][Completes("load_entry") =>
          LET id == last'["c1"].arg
              held == docs[index["c1"]]
          IN  /\ last'["c1"].err = "none"
              /\ IF id \notin DOMAIN held \/ Len(held[id].facets) = 0
                 THEN last'["c1"].ret = None
                 ELSE /\ last'["c1"].ret # None
                      /\ last'["c1"].ret[1].id = id
                      /\ last'["c1"].ret[1].vector = held[id].facets[1]["_embedding"]]_vars

\* load_entry returned None for a document that exists and has no facet
C5_Witness ==
    /\ last["c1"].op = "load_entry" /\ last["c1"].err = "none" /\ last["c1"].ret = None
    /\ last["c1"].arg \in DOMAIN docs[index["c1"]]
    /\ Len(docs[index["c1"]][last["c1"].arg].facets) = 0

\* the ids of a sequence of entries
EntryIds(entries) == [k \in 1..Len(entries) |-> entries[k].id]

\* C6: the fetch of load_entries does not raise when enumerated documents
\* have been deleted; it returns, in the order enumerated, the entries of
\* exactly the enumerated ids the backend finds at fetch time, each with the
\* embedding of its first facet.
C6_LoadEntriesDropsDeleted ==
    [][(pc["c1"].at = "fetch" /\ pc'["c1"].at = "idle") =>
          LET held == docs[index["c1"]]
          IN  /\ last'["c1"].err = "none"
              /\ EntryIds(last'["c1"].ret) = SelectSeq(pc["c1"].ids, LAMBDA id : id \in DOMAIN held)
              /\ \A k \in 1..Len(last'["c1"].ret) :
                    last'["c1"].ret[k].vector
                       = held[last'["c1"].ret[k].id].facets[1]["_embedding"]]_vars

\* load_entries enumerated two documents and returned the one not deleted
C6_Witness ==
    /\ last["c1"].op = "load_entries" /\ last["c1"].err = "none"
    /\ Len(last["c1"].ids) = 2 /\ Len(last["c1"].ret) = 1

\* C7: load_entries with a namespace (ns1 or ns2) returns only entries
\* tagged with that namespace; with no namespace it enumerates every
\* document the search can return.
C7_NamespaceFiltering ==
    /\ [](\A ns \in {NS1, NS2} :
            (last["c1"].op = "load_entries" /\ last["c1"].err = "none" /\ last["c1"].arg = Some(ns))
               => \A k \in 1..Len(last["c1"].ret) : last["c1"].ret[k].namespace = Some(ns))
    /\ [][(pc["c1"].at = "idle" /\ pc'["c1"].at = "fetch") =>
             LET held == docs[index["c1"]]
                 ids == {pc'["c1"].ids[k] : k \in 1..Len(pc'["c1"].ids)}
             IN  pc'["c1"].namespace = None
                    => ids = {id \in DOMAIN held : Len(held[id].facets) > 0}]_vars

\* load_entries(ns1) returned the ns1 document of an index that also holds
\* an ns2 document with a facet
C7_Witness ==
    /\ last["c1"].op = "load_entries" /\ last["c1"].err = "none"
    /\ last["c1"].arg = Some(NS1) /\ Len(last["c1"].ret) = 1
    /\ \E id \in DOMAIN docs[index["c1"]] :
          /\ Len(docs[index["c1"]][id].facets) > 0
          /\ "namespace" \in DOMAIN docs[index["c1"]][id].fields
          /\ docs[index["c1"]][id].fields["namespace"] = Some(NS2)

\* C8: query returns one result per hit of the search, in the order of the
\* hits and with each hit's score, with include_vectors false or true; with
\* include_vectors true it completes after one get_document per hit, and
\* every vector returned is empty.
C8_QueryKeepsOrderAndScores ==
    last["c1"].op = "query" =>
        /\ last["c1"].err = "none"
        /\ Len(last["c1"].ret) = Len(last["c1"].found)
        /\ \A k \in 1..Len(last["c1"].ret) :
              /\ last["c1"].ret[k].score = last["c1"].found[k]["_score"]
              /\ last["c1"].ret[k].vector = <<>>
        /\ last["c1"].fetches = (IF last["c1"].arg.include_vectors THEN Len(last["c1"].found) ELSE 0)

\* C9: for upsert_text_artifact the document sent carries str(meta) in a
\* non-tensor field when meta is given, a namespace field only when a
\* namespace is given, the artifact's id as its id and the serialized
\* artifact in a non-tensor field.
C9_ArtifactWriteContract ==
    (last["c1"].op = "upsert_text_artifact" /\ last["c1"].err = "none") =>
        LET doc == last["c1"].sent.doc
            arg == last["c1"].arg
            non_tensor == last["c1"].sent.non_tensor_fields
        IN  /\ TruthyDict(arg.meta) =>
                  /\ "meta" \in DOMAIN doc
                  /\ doc["meta"] = PyStr(arg.meta[1])
                  /\ "meta" \in non_tensor
            /\ "namespace" \in DOMAIN doc <=> TruthyStr(arg.namespace)
            /\ "namespace" \in DOMAIN doc => "namespace" \in non_tensor
            /\ doc["_id"] = Some(arg.artifact.id)
            /\ "artifact" \in DOMAIN doc /\ "artifact" \in non_tensor

\* the step loads the id a completed upsert_text without a requested id
\* returned, the document still there and holding a facet
LoadsGenerated ==
    /\ last["c1"].op = "upsert_text" /\ last["c1"].err = "none"
    /\ last["c1"].arg.vector_id = None
    /\ Completes("load_entry")
    /\ last'["c1"].arg = last["c1"].ret
    /\ last["c1"].ret \in DOMAIN docs[index["c1"]]
    /\ Len(docs[index["c1"]][last["c1"].ret].facets) > 0

\* C10, as stated: the entry loaded has the generated id, a non-empty
\* vector, and a meta that contains the original metadata.
C10_RoundTripKeepsMetadata ==
    [][LoadsGenerated =>
          /\ last'["c1"].err = "none" /\ last'["c1"].ret # None
          /\ last'["c1"].ret[1].id = last["c1"].ret
          /\ last'["c1"].ret[1].vector # <<>>
          /\ last["c1"].arg.meta # None =>
                \A k \in DOMAIN last["c1"].arg.meta[1] :
                   /\ k \in DOMAIN last'["c1"].ret[1].meta
                   /\ last'["c1"].ret[1].meta[k] = last["c1"].arg.meta[1][k]]_vars

\* C10, amended: upsert_text without a requested id returns an id the
\* backend generated; the entry loaded has that id, the embedding of the
\* text's first chunk as its vector, and a meta whose "meta" field is
\* str(meta) of the original metadata when that was non-empty and is
\* missing otherwise.
C10_RoundTripKeepsSerializedMetadata ==
    /\ []((last["c1"].op = "upsert_text" /\ last["c1"].err = "none") =>
             IF last["c1"].arg.vector_id = None
             THEN last["c1"].ret \in GenIds
             ELSE last["c1"].ret = last["c1"].arg.vector_id[1])
    /\ [][LoadsGenerated =>
             /\ last'["c1"].err = "none" /\ last'["c1"].ret # None
             /\ last'["c1"].ret[1].id = last["c1"].ret
             /\ last'["c1"].ret[1].vector # <<>>
             /\ last'["c1"].ret[1].vector = Embedding(last["c1"].arg.string[1])
             /\ last'["c1"].ret[1].meta["Description"] = last["c1"].arg.string
             /\ IF TruthyDict(last["c1"].arg.meta)
                THEN /\ "meta" \in DOMAIN last'["c1"].ret[1].meta
                     /\ last'["c1"].ret[1].meta["meta"] = PyStr(last["c1"].arg.meta[1])
                ELSE "meta" \notin DOMAIN last'["c1"].ret[1].meta]_vars

\* an entry with a generated id and serialized metadata was loaded
C10_Witness ==
    /\ last["c1"].op = "load_entry" /\ last["c1"].err = "none" /\ last["c1"].ret # None
    /\ last["c1"].ret[1].id \in GenIds
    /\ "meta" \in DOMAIN last["c1"].ret[1].meta
    /\ last["c1"].ret[1].meta["meta"] = PyStr(M1)
    /\ last["c1"].ret[1].vector # <<>>

====
